---- MODULE Spec2Model ----
(***************************************************************************)
(* A model of the podscript transcriber: the chunked transcription         *)
(* orchestrator (media-transcriber/src/transcription.rs), the segmenter    *)
(* and the identifier (rust-transcriber/src/utils.rs).                     *)
(*                                                                         *)
(* Text is a sequence of one-character strings.  Time is counted in ticks  *)
(* of 1/TicksPerSecond second, the resolution of the probed duration.      *)
(***************************************************************************)
EXTENDS Integers, Sequences, FiniteSets, TLC

\* ------------------------------------------------------------------ bounds
\* The largest number of chunks an asset of the orchestrator is split into.
MaxChunks == 3
\* Ticks per second of the probed duration (a float in the code).
TicksPerSecond == 2
\* The segmenter on its own: target chunk lengths 1..MaxChunkSeconds seconds
\* and durations 0..MaxDurationTicks ticks.
MaxChunkSeconds == 3
MaxDurationTicks == 13
\* The identifier: names of at most MaxPieces pieces, a piece being one
\* character or one CDATA marker.
MaxPieces == 4

\* ------------------------------------------------------- program constants
\* const MAX_SIZE: u64 = 25 * 1024 * 1024
MAX_SIZE == 25 * 1024 * 1024
\* utils::split_audio_file(audio_file, &chunks_dir, 1000)
CHUNK_SECONDS == 1000
\* "-b:a", "128k": the bit rate of the chunks, in bits per second
BITRATE == 128000

\* -------------------------------------------------------------------- text
IsWhitespace(c) == c \in {" ", "\n", "\t"}

RECURSIVE TrimStart(_)
TrimStart(s) ==
  IF s = <<>> THEN <<>>
  ELSE IF IsWhitespace(Head(s)) THEN TrimStart(Tail(s)) ELSE s

RECURSIVE TrimEnd(_)
TrimEnd(s) ==
  IF s = <<>> THEN <<>>
  ELSE IF IsWhitespace(s[Len(s)]) THEN TrimEnd(SubSeq(s, 1, Len(s) - 1)) ELSE s

\* str::trim
Trim(s) == TrimEnd(TrimStart(s))

\* ------------------------------------------------------------- environment
\* The texts the backend may return for one audio file, and what it prints
\* on its error output when it fails.
TextChoices == { <<>>, <<"a">>, <<" ", "b">>, <<"c", "\n">> }
StderrChoices == { "quota", "decode" }

\* A file of the output tree: absent, or present with a content.
NoFile == [exists |-> FALSE, content |-> <<>>]
FileOf(text) == [exists |-> TRUE, content |-> text]
PriorChoices == { NoFile, FileOf(<<"o", "l", "d">>) }

\* Byte sizes around the threshold, boundary included.
SizeChoices == { 0, MAX_SIZE - 1, MAX_SIZE, MAX_SIZE + 1, 2 * MAX_SIZE }

\* Durations of the orchestrator's assets: around every multiple of the
\* chunk length up to MaxChunks chunks.
ChunkTicks == CHUNK_SECONDS * TicksPerSecond
OrchDurations == { c * ChunkTicks + e : c \in 0 .. (MaxChunks - 1), e \in {0, 1} }

\* ------------------------------------------------------------------- state
VARIABLES
  pc,              \* position of the one task running transcribe_file
  asset,           \* the audio file: [exists, size, duration]
  prior,           \* the file at the output path before the call
  output_file,     \* the file at the output path
  outputWrites,    \* history: writes made to the output path
  mode,            \* "none", "direct" or "chunked"
  result,          \* "running", "ok" or "err": what transcribe_file returned
  error,           \* the error value returned, when result = "err"
  failedChunk,     \* history: 0-based index of the chunk whose transcription failed, or -1
  segmenterCalls,  \* history: calls of split_audio_file
  adapterCalls,    \* history: backend invocations, [audio, outcome, text]
  tsf,             \* the running transcribe_single_file: [audio, out, ret]
  proc,            \* the backend process: [running, success, stderr]
  temp_dir,        \* the tempdir of transcribe_large_file: [exists, chunks, transcripts]
  chunk_duration,  \* split_audio_file's chunk_duration argument, seconds
  chunk_count,     \* split_audio_file's chunk_count
  seg_i,           \* split_audio_file's loop index
  seg_files,       \* split_audio_file's chunk_files
  seg_ret,         \* split_audio_file's result: "none", "ok" or "err"
  ffmpegCalls,     \* history: the extractions requested, [ss, t]
  chunk_files,     \* transcribe_large_file's chunk_files
  i,               \* transcribe_large_file's loop index
  all_transcripts, \* transcribe_large_file's all_transcripts
  raw_name,        \* the input of sanitize_filename
  sanitized,       \* sanitize_filename(raw_name), once computed
  resanitized,     \* sanitize_filename(sanitized), once computed
  backendsRunning, \* the backend processes started and not yet ended
  feed,            \* the items of the feed at feed_url, in feed order
  limit,           \* config.limit: [set, n]
  podcast_dir,     \* whether the podcast's directory was created by this run
  info_saved,      \* whether podcast_info.json was written by this run
  episodes,        \* process's episodes
  ei,              \* process's loop index i
  episode_dirs,    \* the episode directories created, by name
  episode_temps,   \* the episodes whose tempdir exists
  started,         \* history: the episodes whose iteration began
  downloads,       \* history: the episodes whose download was started
  transcribes,     \* history: the episodes given to transcribe_file
  log,             \* the error! and info! lines about episodes, [id, level]
  transcript_by,   \* history: for each episode directory with a transcript.txt,
                   \* the episode it was last written for and whether that
                   \* write was of a whole transcript, [by, whole]
  run_result,      \* "running", "ok" or "err": what process returned
  run_error,       \* the error value returned, when run_result = "err"
  main_mode,       \* "source" (--source) or "file" (--file)
  file_lines,      \* the lines of the sources file (--file)
  sources,         \* the sources to process: the line of each and its text
  si,              \* process_sources_file's loop index
  source_log,      \* history: what process returned for each source
  main_result,     \* "running", "ok" or "err": what main returned
  file_path,       \* LocalFileProcessor::process's file_path: [exists, name]
  file_info,       \* file_info.txt in the output directory: "absent", "partial" or "whole"
  local_steps,     \* history: the calls LocalFileProcessor::process made, in order
  local_result     \* "running", "ok" or "err": what LocalFileProcessor::process returned

orchVars == << pc, asset, prior, output_file, outputWrites, mode, result, error,
               failedChunk, segmenterCalls, adapterCalls, tsf, proc, temp_dir,
               chunk_files, i, all_transcripts >>
orchVars_but_pc_error_temp ==
  << asset, prior, output_file, outputWrites, mode, result, failedChunk,
     segmenterCalls, adapterCalls, tsf, proc, chunk_files, i, all_transcripts >>
segVars == << chunk_duration, chunk_count, seg_i, seg_files, seg_ret, ffmpegCalls >>
idVars == << raw_name, sanitized, resanitized >>
\* what the orchestrator and the segmenter never touch
batchVars == << feed, limit, podcast_dir, info_saved, episodes, ei, episode_dirs,
               episode_temps, started, downloads, transcribes, log, run_result,
               run_error, transcript_by >>
mainVars == << main_mode, file_lines, sources, si, source_log, main_result >>
localVars == << file_path, file_info, local_steps, local_result >>
outerVars == << idVars, batchVars, mainVars, localVars >>
vars == << orchVars, segVars, outerVars, backendsRunning >>

\* ------------------------------------------------------------ error values
NoError == [msg |-> "", stderr |-> ""]
\* an std::io::Error or a parse error carried by `?`
IoError(what) == [msg |-> what, stderr |-> ""]
\* anyhow!("Transcription failed: {}", String::from_utf8_lossy(&output.stderr))
TranscriptionFailed(stderr) == [msg |-> "Transcription failed", stderr |-> stderr]
\* anyhow!("Command failed with exit code {}: {}", code, stderr)
CommandFailed(stderr) == [msg |-> "Command failed", stderr |-> stderr]

\* The paths the orchestrator names: the asset, the transcript path, and
\* chunks/chunk_{n}.mp3 and transcripts/transcript_{n}.txt of the tempdir.
AssetPath == [dir |-> "input", n |-> 0]
OutputPath == [dir |-> "output", n |-> 0]
ChunkPath(n) == [dir |-> "chunks", n |-> n]
TranscriptPath(n) == [dir |-> "transcripts", n |-> n]

NoTsf == [audio |-> AssetPath, out |-> OutputPath, ret |-> "none"]
NoProc == [running |-> FALSE, success |-> FALSE, stderr |-> ""]
NoTemp == [exists |-> FALSE, chunks |-> {}, transcripts |-> << >>]
\* -t is absent from the ffmpeg arguments
NoLimit == -1

\* -------------------------------------------------------------- identifier
CDATA_OPEN == << "<", "!", "[", "C", "D", "A", "T", "A", "[" >>
CDATA_CLOSE == << "]", "]", ">" >>

\* The characters of the model that [a-zA-Z0-9] matches, and those \s matches.
AsciiAlnum == { "a", "A", "C", "D", "T" }
RegexSpace == { " ", "\t", "\n" }

StartsWith(s, p) == Len(p) <= Len(s) /\ SubSeq(s, 1, Len(p)) = p

RECURSIVE Replace(_, _, _)
\* str::replace(from, to): every non-overlapping match, left to right
Replace(s, from, to) ==
  IF s = << >> THEN << >>
  ELSE IF StartsWith(s, from)
    THEN to \o Replace(SubSeq(s, Len(from) + 1, Len(s)), from, to)
    ELSE << Head(s) >> \o Replace(Tail(s), from, to)

\* input.replace("<![CDATA[", "").replace("]]>", "")
WithoutCdata(input) == Replace(Replace(input, CDATA_OPEN, << >>), CDATA_CLOSE, << >>)

\* Regex::new(r"[^a-zA-Z0-9\s]").replace_all(.., "")
\* the character class without its negation: the characters to keep are dropped
KeepNonAlphanumeric(s) == SelectSeq(s, LAMBDA c : ~(c \in AsciiAlnum \/ c \in RegexSpace))
KeepAlphanumeric(s) == SelectSeq(s, LAMBDA c : c \in AsciiAlnum \/ c \in RegexSpace)

\* alphanumeric.replace(' ', "_")
WithUnderscores(s) == [k \in 1 .. Len(s) |-> IF s[k] = " " THEN "_" ELSE s[k]]

RECURSIVE StripTrailing(_)
\* Regex::new(r"_+$").replace_all(.., "")
StripTrailing(s) ==
  IF s # << >> /\ s[Len(s)] = "_" THEN StripTrailing(SubSeq(s, 1, Len(s) - 1)) ELSE s

sanitize_filename(input) ==
  StripTrailing(WithUnderscores(KeepAlphanumeric(WithoutCdata(input))))

\* The names given to the identifier.
Pieces == { << "a" >>, << " " >>, << "\t" >>, << "_" >>, << "#" >>, CDATA_OPEN, CDATA_CLOSE }
RECURSIVE Flatten(_)
Flatten(ps) == IF ps = << >> THEN << >> ELSE Head(ps) \o Flatten(Tail(ps))
RawNames == { Flatten(ps) : ps \in UNION { [1 .. n -> Pieces] : n \in 0 .. MaxPieces } }

\* utils::sanitize_filename(&title)
SanitizeOnce ==
  /\ pc = "sanitize"
  /\ sanitized' = sanitize_filename(raw_name)
  /\ pc' = "sanitized"
  /\ UNCHANGED << raw_name, resanitized, asset, prior, output_file, outputWrites, mode,
                  result, error, failedChunk, segmenterCalls, adapterCalls, tsf, proc,
                  temp_dir, chunk_files, i, all_transcripts, segVars, batchVars,
                  mainVars, localVars, backendsRunning >>

\* sanitize_filename applied to a name it returned
SanitizeAgain ==
  /\ pc = "sanitized"
  /\ resanitized' = sanitize_filename(sanitized)
  /\ pc' = "resanitized"
  /\ UNCHANGED << raw_name, sanitized, asset, prior, output_file, outputWrites, mode,
                  result, error, failedChunk, segmenterCalls, adapterCalls, tsf, proc,
                  temp_dir, chunk_files, i, all_transcripts, segVars, batchVars,
                  mainVars, localVars, backendsRunning >>

\* --------------------------------------------------------------- segmenter
\* a chunk count rounded down and then raised by one
ChunkCountFloorPlusOne(duration, seconds) ==
  duration \div (seconds * TicksPerSecond) + 1

\* (duration / chunk_duration as f64).ceil() as usize, on ticks
\* a count that is never below one chunk
ChunkCountAtLeastOne(duration, seconds) ==
  IF duration = 0 THEN 1
  ELSE (duration + seconds * TicksPerSecond - 1) \div (seconds * TicksPerSecond)

ChunkCount(duration, seconds) ==
  (duration + seconds * TicksPerSecond - 1) \div (seconds * TicksPerSecond)

\* start offsets counted from the number of the chunk file instead of its index
ExtractArgsFromOne(idx, count, seconds) ==
  [ss |-> (idx + 1) * seconds, t |-> IF idx < count - 1 THEN seconds ELSE NoLimit]

\* arguments that leave -t out for every chunk
ExtractArgsUnbounded(idx, count, seconds) ==
  [ss |-> idx * seconds, t |-> NoLimit]

\* if i < chunk_count - 1 { args.extend_from_slice(&["-t", &chunk_duration_str]) }
ExtractArgs(idx, count, seconds) ==
  [ss |-> idx * seconds, t |-> IF idx < count - 1 THEN seconds ELSE NoLimit]

\* The stretch of the input, in ticks, that ffmpeg extracts for -ss and -t on
\* an input of the given duration: from the offset to the offset plus the
\* length, or to the end of the stream when that comes first or no -t is given.
ExtractedFrom(call) == call.ss * TicksPerSecond
ExtractedTo(call, duration) ==
  IF call.t = NoLimit \/ ExtractedFrom(call) + call.t * TicksPerSecond > duration
    THEN duration
    ELSE ExtractedFrom(call) + call.t * TicksPerSecond

\* the size in bytes of a stretch of the given ticks encoded at BITRATE
EncodedBytes(ticks) == (ticks * BITRATE) \div (8 * TicksPerSecond)

\* split_audio_file up to the loop: create_dir_all, ffprobe, parse, chunk_count
SplitProbe ==
  /\ pc = "split_probe"
  /\ UNCHANGED << outerVars, backendsRunning >>
  /\ UNCHANGED << orchVars_but_pc_error_temp, ffmpegCalls, chunk_duration >>
  /\ \/ \E e \in { IoError("create_dir_all"), CommandFailed("ffprobe"), IoError("parse") } :
          /\ error' = e
          /\ seg_ret' = "err"
          /\ pc' = "split_returned"
          /\ UNCHANGED << chunk_count, seg_i, seg_files, temp_dir >>
     \/ /\ chunk_count' = ChunkCount(asset.duration, chunk_duration)
        /\ seg_files' = << >>
        /\ seg_i' = 0
        /\ pc' = "split_loop"
        /\ UNCHANGED << error, seg_ret, temp_dir >>

\* an iteration that answers a failed ffmpeg with the chunks extracted so far
SplitExtractPartial ==
  /\ pc = "split_loop"
  /\ UNCHANGED << outerVars, backendsRunning >>
  /\ seg_i < chunk_count
  /\ UNCHANGED << orchVars_but_pc_error_temp, chunk_duration, chunk_count >>
  /\ ffmpegCalls' = Append(ffmpegCalls, ExtractArgs(seg_i, chunk_count, chunk_duration))
  /\ \/ /\ error' = CommandFailed("ffmpeg")
        /\ seg_ret' = "ok"
        /\ pc' = "split_returned"
        /\ UNCHANGED << seg_i, seg_files, temp_dir >>
     \/ /\ temp_dir' = [temp_dir EXCEPT !.chunks = @ \cup {seg_i + 1}]
        /\ seg_files' = Append(seg_files, seg_i + 1)
        /\ seg_i' = seg_i + 1
        /\ UNCHANGED << pc, error, seg_ret >>

\* one iteration of `for i in 0..chunk_count`: run ffmpeg, push the chunk file
SplitExtract ==
  /\ pc = "split_loop"
  /\ UNCHANGED << outerVars, backendsRunning >>
  /\ seg_i < chunk_count
  /\ UNCHANGED << orchVars_but_pc_error_temp, chunk_duration, chunk_count >>
  /\ ffmpegCalls' = Append(ffmpegCalls, ExtractArgs(seg_i, chunk_count, chunk_duration))
  /\ \/ /\ error' = CommandFailed("ffmpeg")
        /\ seg_ret' = "err"
        /\ pc' = "split_returned"
        /\ UNCHANGED << seg_i, seg_files, temp_dir >>
     \/ /\ temp_dir' = [temp_dir EXCEPT !.chunks = @ \cup {seg_i + 1}]
        /\ seg_files' = Append(seg_files, seg_i + 1)
        /\ seg_i' = seg_i + 1
        /\ UNCHANGED << pc, error, seg_ret >>

\* the loop is over: Ok(chunk_files)
SplitReturn ==
  /\ pc = "split_loop"
  /\ UNCHANGED << outerVars, backendsRunning >>
  /\ seg_i >= chunk_count
  /\ seg_ret' = "ok"
  /\ pc' = "split_returned"
  /\ UNCHANGED << orchVars_but_pc_error_temp, error, temp_dir, chunk_duration,
                  chunk_count, seg_i, seg_files, ffmpegCalls >>

\* ------------------------------------------------------------ orchestrator
\* a strict comparison with the threshold
DirectModeStrict(file_size) == file_size < MAX_SIZE

\* if file_size <= MAX_SIZE
DirectMode(file_size) == file_size <= MAX_SIZE

\* a separator of one line break
PushTranscriptNewline(all, transcript) == all \o transcript \o << "\n" >>

\* all_transcripts.push_str(&transcript); all_transcripts.push_str("\n\n")
PushTranscript(all, transcript) == all \o transcript \o << "\n", "\n" >>

\* fs::write(output_file, all_transcripts.trim())
Combined(all) == Trim(all)

\* What a failed fs::write (File::create, then write_all) leaves at the path:
\* the file as it was when the open failed, a proper prefix of the data when
\* the write failed after the open truncated the file.
FailedWrite(file, data) ==
  { file } \cup { FileOf(SubSeq(data, 1, n)) : n \in 0 .. (Len(data) - 1) }

\* let transcript_file = transcripts_dir.join(format!("transcript_{}.txt", i + 1))
ChunkTranscriptFile(idx) == TranscriptPath(idx + 1)

\* a pairing of the index with the chunks taken from the end
ChunkAtReversed(files, idx) == files[Len(files) - idx]

\* chunk_files.iter().enumerate(): the chunk_file paired with index i
ChunkAt(files, idx) == files[idx + 1]

\* transcribe_file: existence and size checks, then the dispatch on the size
TranscribeFile ==
  /\ pc = "transcribe_file"
  /\ UNCHANGED << outerVars, backendsRunning >>
  /\ UNCHANGED << asset, prior, output_file, outputWrites, failedChunk, segmenterCalls,
                  adapterCalls, proc, temp_dir, chunk_files, i, all_transcripts, segVars >>
  /\ IF ~asset.exists
       THEN /\ result' = "err"
            /\ error' = IoError("Audio file does not exist")
            /\ pc' = "done"
            /\ UNCHANGED << mode, tsf >>
       ELSE \/ /\ result' = "err"
               /\ error' = IoError("metadata")
               /\ pc' = "done"
               /\ UNCHANGED << mode, tsf >>
            \/ /\ DirectMode(asset.size)
               /\ mode' = "direct"
               /\ tsf' = [audio |-> AssetPath, out |-> OutputPath, ret |-> "none"]
               /\ pc' = "tsf_enter"
               /\ UNCHANGED << result, error >>
            \/ /\ ~DirectMode(asset.size)
               /\ mode' = "chunked"
               /\ pc' = "tlf_enter"
               /\ UNCHANGED << result, error, tsf >>

\* a call that starts the backend process and returns without waiting for it
SingleFileSpawn ==
  /\ pc = "tsf_enter"
  /\ UNCHANGED outerVars
  /\ UNCHANGED << asset, prior, output_file, outputWrites, mode, result, failedChunk,
                  segmenterCalls, temp_dir, chunk_files, i, all_transcripts, segVars,
                  error >>
  /\ adapterCalls' = Append(adapterCalls,
                            [audio |-> tsf.audio, outcome |-> "running", text |-> << >>])
  /\ proc' = [running |-> TRUE, success |-> FALSE, stderr |-> ""]
  /\ backendsRunning' = backendsRunning + 1
  /\ tsf' = [tsf EXCEPT !.ret = "ok"]
  /\ pc' = "tsf_returned"

\* transcribe_single_file up to the start of the backend process:
\* create_dir_all(parent), then Command::output spawns ../podscript
SingleFileCall ==
  /\ pc = "tsf_enter"
  /\ UNCHANGED outerVars
  /\ UNCHANGED << asset, prior, output_file, outputWrites, mode, result, failedChunk,
                  segmenterCalls, temp_dir, chunk_files, i, all_transcripts, segVars >>
  /\ \/ \E e \in { IoError("create_dir_all"), IoError("spawn") } :
          /\ error' = e
          /\ tsf' = [tsf EXCEPT !.ret = "err"]
          /\ pc' = "tsf_returned"
          /\ UNCHANGED << adapterCalls, proc, backendsRunning >>
     \/ /\ adapterCalls' = Append(adapterCalls,
                                 [audio |-> tsf.audio, outcome |-> "running", text |-> << >>])
        /\ proc' = [running |-> TRUE, success |-> FALSE, stderr |-> ""]
        /\ backendsRunning' = backendsRunning + 1
        /\ pc' = "backend_running"
        /\ UNCHANGED << error, tsf >>

\* The podscript process given --output: it ends with success after writing
\* the text to the path, or with failure, a message on its error output and
\* nothing written.
BackendRun ==
  /\ pc = "backend_running"
  /\ UNCHANGED outerVars
  /\ pc' = "tsf_exit"
  /\ backendsRunning' = backendsRunning - 1
  /\ UNCHANGED << asset, prior, mode, result, error, failedChunk, segmenterCalls,
                  tsf, chunk_files, i, all_transcripts, segVars >>
  /\ \/ \E text \in TextChoices :
          /\ proc' = [running |-> FALSE, success |-> TRUE, stderr |-> ""]
          /\ adapterCalls' = [adapterCalls EXCEPT ![Len(adapterCalls)] =
                                 [@ EXCEPT !.outcome = "ok", !.text = text]]
          /\ IF tsf.out = OutputPath
               THEN /\ output_file' = FileOf(text)
                    /\ outputWrites' = outputWrites + 1
                    /\ UNCHANGED temp_dir
               ELSE /\ temp_dir' = [temp_dir EXCEPT
                                      !.transcripts = (tsf.out.n :> text) @@ @]
                    /\ UNCHANGED << output_file, outputWrites >>
     \/ \E s \in StderrChoices :
          /\ proc' = [running |-> FALSE, success |-> FALSE, stderr |-> s]
          /\ adapterCalls' = [adapterCalls EXCEPT ![Len(adapterCalls)].outcome = "err"]
          /\ UNCHANGED << output_file, outputWrites, temp_dir >>

\* a call that starts the backend process once more when it failed
SingleFileExitRetry ==
  /\ pc = "tsf_exit"
  /\ UNCHANGED << outerVars, backendsRunning >>
  /\ UNCHANGED << asset, prior, output_file, outputWrites, mode, result, failedChunk,
                  segmenterCalls, adapterCalls, proc, temp_dir, chunk_files, i,
                  all_transcripts, segVars >>
  /\ IF proc.success
       THEN /\ tsf' = [tsf EXCEPT !.ret = "ok"]
            /\ pc' = "tsf_returned"
            /\ UNCHANGED error
       ELSE IF Len(adapterCalls) < 2
         THEN /\ pc' = "tsf_enter"
              /\ UNCHANGED << error, tsf >>
         ELSE /\ error' = TranscriptionFailed(proc.stderr)
              /\ tsf' = [tsf EXCEPT !.ret = "err"]
              /\ pc' = "tsf_returned"

\* transcribe_single_file after the process ended: the exit status decides
SingleFileExit ==
  /\ pc = "tsf_exit"
  /\ UNCHANGED << outerVars, backendsRunning >>
  /\ pc' = "tsf_returned"
  /\ UNCHANGED << asset, prior, output_file, outputWrites, mode, result, failedChunk,
                  segmenterCalls, adapterCalls, proc, temp_dir, chunk_files, i,
                  all_transcripts, segVars >>
  /\ IF ~proc.success
       THEN /\ error' = TranscriptionFailed(proc.stderr)
            /\ tsf' = [tsf EXCEPT !.ret = "err"]
       ELSE /\ tsf' = [tsf EXCEPT !.ret = "ok"]
            /\ UNCHANGED error

\* transcribe_file, direct branch: self.transcribe_single_file(..).await?; Ok(())
DirectReturn ==
  /\ pc = "tsf_returned"
  /\ UNCHANGED << outerVars, backendsRunning >>
  /\ mode = "direct"
  /\ result' = (IF tsf.ret = "ok" THEN "ok" ELSE "err")
  /\ pc' = "done"
  /\ UNCHANGED << asset, prior, output_file, outputWrites, mode, error, failedChunk,
                  segmenterCalls, adapterCalls, tsf, proc, temp_dir, chunk_files, i,
                  all_transcripts, segVars >>

\* transcribe_large_file up to the call of split_audio_file
LargeSetup ==
  /\ pc = "tlf_enter"
  /\ UNCHANGED << outerVars, backendsRunning >>
  /\ UNCHANGED << asset, prior, output_file, outputWrites, mode, failedChunk,
                  adapterCalls, tsf, proc, chunk_files, i, all_transcripts,
                  chunk_count, seg_i, seg_files, seg_ret, ffmpegCalls >>
  /\ \/ \E e \in { IoError("tempdir"), IoError("create_dir_all") } :
          /\ result' = "err"
          /\ error' = e
          /\ pc' = "done"
          /\ UNCHANGED << temp_dir, segmenterCalls, chunk_duration >>
     \/ /\ temp_dir' = [exists |-> TRUE, chunks |-> {}, transcripts |-> << >>]
        /\ segmenterCalls' = segmenterCalls + 1
        /\ chunk_duration' = CHUNK_SECONDS
        /\ pc' = "split_probe"
        /\ UNCHANGED << result, error >>

\* let chunk_files = utils::split_audio_file(..)?; let mut all_transcripts
LargeAfterSplit ==
  /\ pc = "split_returned"
  /\ UNCHANGED << outerVars, backendsRunning >>
  /\ mode = "chunked"
  /\ UNCHANGED << asset, prior, output_file, outputWrites, mode, error, failedChunk,
                  segmenterCalls, adapterCalls, tsf, proc, segVars >>
  /\ IF seg_ret = "err"
       THEN /\ result' = "err"
            /\ temp_dir' = NoTemp
            /\ pc' = "done"
            /\ UNCHANGED << chunk_files, i, all_transcripts >>
       ELSE /\ chunk_files' = seg_files
            /\ all_transcripts' = << >>
            /\ i' = 0
            /\ pc' = "chunk_loop"
            /\ UNCHANGED << result, temp_dir >>

\* for (i, chunk_file) in chunk_files.iter().enumerate(): the call of
\* transcribe_single_file(chunk_file, transcript_{i+1}.txt)
ChunkNext ==
  /\ pc = "chunk_loop"
  /\ UNCHANGED << outerVars, backendsRunning >>
  /\ i < Len(chunk_files)
  /\ tsf' = [audio |-> ChunkPath(ChunkAt(chunk_files, i)), out |-> ChunkTranscriptFile(i),
             ret |-> "none"]
  /\ pc' = "tsf_enter"
  /\ UNCHANGED << asset, prior, output_file, outputWrites, mode, result, error,
                  failedChunk, segmenterCalls, adapterCalls, proc, temp_dir,
                  chunk_files, i, all_transcripts, segVars >>

\* an iteration that logs a failed chunk and goes on to the next one
ChunkTranscribedContinue ==
  /\ pc = "tsf_returned"
  /\ UNCHANGED << outerVars, backendsRunning >>
  /\ mode = "chunked"
  /\ UNCHANGED << asset, prior, output_file, outputWrites, mode, segmenterCalls,
                  adapterCalls, tsf, proc, chunk_files, segVars, result, temp_dir >>
  /\ i' = i + 1
  /\ pc' = "chunk_loop"
  /\ IF tsf.ret = "err"
       THEN /\ failedChunk' = i
            /\ UNCHANGED << error, all_transcripts >>
       ELSE /\ tsf.out.n \in DOMAIN temp_dir.transcripts
            /\ all_transcripts' =
                 PushTranscript(all_transcripts, temp_dir.transcripts[tsf.out.n])
            /\ UNCHANGED << error, failedChunk >>

\* the rest of the iteration: `?` on the call, read_to_string, the two push_str
ChunkTranscribed ==
  /\ pc = "tsf_returned"
  /\ UNCHANGED << outerVars, backendsRunning >>
  /\ mode = "chunked"
  /\ UNCHANGED << asset, prior, output_file, outputWrites, mode, segmenterCalls,
                  adapterCalls, tsf, proc, chunk_files, segVars >>
  /\ IF tsf.ret = "err"
       THEN /\ result' = "err"
            /\ failedChunk' = i
            /\ temp_dir' = NoTemp
            /\ pc' = "done"
            /\ UNCHANGED << error, i, all_transcripts >>
       ELSE \/ /\ result' = "err"
               /\ error' = IoError("read_to_string")
               /\ temp_dir' = NoTemp
               /\ pc' = "done"
               /\ UNCHANGED << failedChunk, i, all_transcripts >>
            \/ /\ tsf.out.n \in DOMAIN temp_dir.transcripts
               /\ all_transcripts' =
                    PushTranscript(all_transcripts, temp_dir.transcripts[tsf.out.n])
               /\ i' = i + 1
               /\ pc' = "chunk_loop"
               /\ UNCHANGED << result, error, failedChunk, temp_dir >>

\* after the loop: create_dir_all(parent), fs::write(output_file, trimmed), Ok
WriteCombined ==
  /\ pc = "chunk_loop"
  /\ UNCHANGED << outerVars, backendsRunning >>
  /\ i >= Len(chunk_files)
  /\ pc' = "done"
  /\ temp_dir' = NoTemp
  /\ UNCHANGED << asset, prior, mode, failedChunk, segmenterCalls, adapterCalls, tsf,
                  proc, chunk_files, i, all_transcripts, segVars >>
  /\ \/ /\ result' = "err"
        /\ error' = IoError("create_dir_all")
        /\ UNCHANGED << output_file, outputWrites >>
     \/ \E left \in FailedWrite(output_file, Combined(all_transcripts)) :
          /\ result' = "err"
          /\ error' = IoError("write")
          /\ output_file' = left
          /\ outputWrites' = (IF left = output_file THEN outputWrites ELSE outputWrites + 1)
     \/ /\ result' = "ok"
        /\ output_file' = FileOf(Combined(all_transcripts))
        /\ outputWrites' = outputWrites + 1
        /\ UNCHANGED error

\* ----------------------------------------------------------- batch pipeline
\* Option<DateTime<FixedOffset>>, in seconds from 1970-01-01T00:00:00+00:00
NoDate == [some |-> FALSE, t |-> 0]
DateAt(t) == [some |-> TRUE, t |-> t]

\* The items a feed is made of, by number. Each has a title (two titles
\* differ in punctuation only, one is punctuation only) and a publish date
\* (one has none, one lies before 1970).
ItemTitles ==
  << << "a" >>, << "a", "#" >>, << "#" >>, << "D" >>, << "T" >>, << "C" >>, << "A" >> >>
ItemDates ==
  << DateAt(3), NoDate, DateAt(-1), DateAt(1), DateAt(2), DateAt(4), DateAt(5) >>
\* the top-level type of the item's enclosure, "none" for an item without one
ItemEnclosures == << "audio", "audio", "audio", "audio", "audio", "video", "none" >>
Item(k) == [id |-> k, title |-> ItemTitles[k], pub_date |-> ItemDates[k],
            enclosure |-> ItemEnclosures[k]]

\* extract_episodes: the items with an enclosure of an audio/ type, in feed order
ExtractEpisodes(items) == SelectSeq(items, LAMBDA it : it.enclosure = "audio")

\* pub_date.unwrap_or_default(): the default DateTime is the 1970 epoch
DateKey(pub_date) == IF pub_date.some THEN pub_date.t ELSE 0

RECURSIVE InsertByDate(_, _)
\* e put behind every episode that is not older than it
InsertByDate(sorted, e) ==
  IF sorted = << >> THEN << e >>
  ELSE IF DateKey(Head(sorted).pub_date) >= DateKey(e.pub_date)
    THEN << Head(sorted) >> \o InsertByDate(Tail(sorted), e)
    ELSE << e >> \o sorted

RECURSIVE SortByDate(_)
\* episodes.sort_by(|a, b| b.pub_date.unwrap_or_default().cmp(&a.pub_date.unwrap_or_default()))
\* a stable sort, newest first
SortByDate(eps) ==
  IF eps = << >> THEN << >>
  ELSE InsertByDate(SortByDate(SubSeq(eps, 1, Len(eps) - 1)), eps[Len(eps)])

\* if let Some(limit) = self.config.limit { if episodes.len() > limit { episodes.truncate(limit) } }
Truncate(eps, lim) ==
  IF lim.set /\ Len(eps) > lim.n THEN SubSeq(eps, 1, lim.n) ELSE eps

\* The audio files a download leaves in the episode's tempdir: one of at most
\* 25 MiB, one above it that is two chunks long.
NoAsset == [exists |-> FALSE, size |-> 0, duration |-> 0]
BatchAssets ==
  { [exists |-> TRUE, size |-> MAX_SIZE, duration |-> 1],
    [exists |-> TRUE, size |-> MAX_SIZE + 1, duration |-> ChunkTicks + 1] }

\* process returns Err(e)
ProcessFails(e) ==
  /\ run_result' = "err"
  /\ run_error' = e
  /\ pc' = "process_returned"

\* the variables of a transcribe_file call, as they are when none is running
ForgetCall ==
  /\ asset' = NoAsset
  /\ prior' = NoFile
  /\ output_file' = NoFile
  /\ outputWrites' = 0
  /\ mode' = "none"
  /\ result' = "running"
  /\ error' = NoError
  /\ failedChunk' = -1
  /\ segmenterCalls' = 0
  /\ adapterCalls' = << >>
  /\ tsf' = NoTsf
  /\ proc' = NoProc
  /\ chunk_files' = << >>
  /\ i' = 0
  /\ all_transcripts' = << >>
  /\ chunk_duration' = 0
  /\ chunk_count' = 0
  /\ seg_i' = 0
  /\ seg_files' = << >>
  /\ seg_ret' = "none"
  /\ ffmpegCalls' = << >>

callVars == << asset, prior, output_file, outputWrites, mode, result, error,
               failedChunk, segmenterCalls, adapterCalls, tsf, proc, chunk_files, i,
               all_transcripts, segVars >>

\* process up to its loop: download_feed, create_podcast_directory,
\* save_podcast_info, extract_episodes, the sort and the limit
ProcessSetup ==
  /\ pc = "process"
  /\ UNCHANGED transcript_by
  /\ UNCHANGED << callVars, temp_dir, backendsRunning, idVars, localVars, mainVars, feed,
                  limit, ei, episode_dirs, episode_temps, started, downloads, transcribes,
                  log >>
  /\ \/ /\ ProcessFails(IoError("download_feed"))
        /\ UNCHANGED << podcast_dir, info_saved, episodes >>
     \/ /\ ProcessFails(IoError("create_dir_all"))
        /\ UNCHANGED << podcast_dir, info_saved, episodes >>
     \/ /\ ProcessFails(IoError("write"))
        /\ podcast_dir' = TRUE
        /\ UNCHANGED << info_saved, episodes >>
     \/ /\ podcast_dir' = TRUE
        /\ info_saved' = TRUE
        /\ episodes' = Truncate(SortByDate(ExtractEpisodes(feed)), limit)
        /\ pc' = "episode_loop"
        /\ UNCHANGED << run_result, run_error >>

\* the name of the episode's directory under the podcast's directory
EpisodeDirName(episode) == sanitize_filename(episode.title)

\* an iteration of `for (i, episode) in episodes.iter().enumerate()` up to the
\* download: fs::create_dir_all(&episode_dir)?, tempdir()?
EpisodeBegin ==
  /\ pc = "episode_loop"
  /\ UNCHANGED transcript_by
  /\ ei < Len(episodes)
  /\ started' = Append(started, episodes[ei + 1].id)
  /\ UNCHANGED << callVars, temp_dir, backendsRunning, idVars, localVars, mainVars, feed,
                  limit, podcast_dir, info_saved, episodes, ei, downloads, transcribes, log >>
  /\ \/ /\ ProcessFails(IoError("create_dir_all"))
        /\ UNCHANGED << episode_dirs, episode_temps >>
     \/ /\ ProcessFails(IoError("tempdir"))
        /\ episode_dirs' = episode_dirs \cup { EpisodeDirName(episodes[ei + 1]) }
        /\ UNCHANGED episode_temps
     \/ /\ episode_dirs' = episode_dirs \cup { EpisodeDirName(episodes[ei + 1]) }
        /\ episode_temps' = episode_temps \cup { episodes[ei + 1].id }
        /\ pc' = "download"
        /\ UNCHANGED << run_result, run_error >>

\* a tempdir that outlives the iteration
KeepTemp(temps, id) == temps

\* the episode's temp_dir goes out of scope: the directory and the audio in
\* it are removed
DropTemp(temps, id) == temps \ { id }

\* the files process and transcribe_file have left in an episode directory
EpisodeFiles(name) ==
  IF name \in DOMAIN transcript_by THEN { "transcript.txt" } ELSE {}

\* a download whose error is returned from process
EpisodeDownloadPropagates ==
  /\ pc = "download"
  /\ UNCHANGED transcript_by
  /\ downloads' = Append(downloads, episodes[ei + 1].id)
  /\ UNCHANGED << temp_dir, backendsRunning, idVars, localVars, mainVars, feed, limit,
                  podcast_dir, info_saved, episodes, episode_dirs, started >>
  /\ \/ /\ ProcessFails(IoError("download"))
        /\ episode_temps' = DropTemp(episode_temps, episodes[ei + 1].id)
        /\ UNCHANGED << callVars, transcribes, ei, log >>
     \/ /\ transcribes' = Append(transcribes, episodes[ei + 1].id)
        /\ asset' \in BatchAssets
        /\ pc' = "transcribe_file"
        /\ UNCHANGED << prior, output_file, outputWrites, mode, result, error,
                        failedChunk, segmenterCalls, adapterCalls, tsf, proc,
                        chunk_files, i, all_transcripts, segVars, ei, episode_temps,
                        log, run_result, run_error >>

\* utils::download_file(&episode.audio_url, &audio_file): on Err the error
\* is logged and the loop continues; on Ok transcribe_file is called on the
\* audio file and episode_dir/transcript.txt
EpisodeDownload ==
  /\ pc = "download"
  /\ UNCHANGED transcript_by
  /\ downloads' = Append(downloads, episodes[ei + 1].id)
  /\ UNCHANGED << temp_dir, backendsRunning, idVars, localVars, mainVars, feed, limit,
                  podcast_dir, info_saved, episodes, episode_dirs, started, run_result, run_error >>
  /\ \/ /\ log' = Append(log, [id |-> episodes[ei + 1].id, level |-> "error"])
        /\ episode_temps' = DropTemp(episode_temps, episodes[ei + 1].id)
        /\ ei' = ei + 1
        /\ pc' = "episode_loop"
        /\ UNCHANGED << callVars, transcribes >>
     \/ /\ transcribes' = Append(transcribes, episodes[ei + 1].id)
        /\ asset' \in BatchAssets
        /\ pc' = "transcribe_file"
        /\ UNCHANGED << prior, output_file, outputWrites, mode, result, error,
                        failedChunk, segmenterCalls, adapterCalls, tsf, proc,
                        chunk_files, i, all_transcripts, segVars, ei, episode_temps,
                        log >>

\* transcribe_file returned: an Err is logged as an error and the loop
\* continues, an Ok is logged as a success; the iteration ends
EpisodeTranscribed ==
  /\ pc = "done"
  /\ log' = Append(log, [id |-> episodes[ei + 1].id,
                         level |-> IF result = "err" THEN "error" ELSE "info"])
  /\ episode_temps' = DropTemp(episode_temps, episodes[ei + 1].id)
  /\ transcript_by' =
       (IF outputWrites > 0
          THEN (EpisodeDirName(episodes[ei + 1]) :>
                  [by |-> episodes[ei + 1].id, whole |-> result = "ok"]) @@ transcript_by
          ELSE transcript_by)
  /\ ei' = ei + 1
  /\ pc' = "episode_loop"
  /\ ForgetCall
  /\ UNCHANGED << temp_dir, backendsRunning, idVars, localVars, mainVars, feed, limit,
                  podcast_dir, info_saved, episodes, episode_dirs, started, downloads, transcribes,
                  run_result, run_error >>

\* the loop is over: Ok(())
ProcessReturn ==
  /\ pc = "episode_loop"
  /\ UNCHANGED transcript_by
  /\ ei >= Len(episodes)
  /\ run_result' = "ok"
  /\ pc' = "process_returned"
  /\ UNCHANGED << callVars, temp_dir, backendsRunning, idVars, localVars, mainVars, feed,
                  limit, podcast_dir, info_saved, episodes, ei, episode_dirs, episode_temps,
                  started, downloads, transcribes, log, run_error >>

\* ---------------------------------------------------------------- main
\* the batch variables, as they are before process is called on feed f
EnterProcess(f) ==
  /\ feed' = f
  /\ podcast_dir' = FALSE
  /\ info_saved' = FALSE
  /\ episodes' = << >>
  /\ ei' = 0
  /\ episode_dirs' = {}
  /\ started' = << >>
  /\ downloads' = << >>
  /\ transcribes' = << >>
  /\ log' = << >>
  /\ transcript_by' = << >>
  /\ run_result' = "running"
  /\ run_error' = NoError
  /\ pc' = "process"

\* what process returned, with the work it did on episodes
SourceOutcome ==
  [line |-> sources[si + 1].line, result |-> run_result, setup |-> info_saved,
   downloads |-> Len(downloads), transcribes |-> Len(transcribes)]

\* the feed behind a source
RunFeeds == { << Item(1) >> }

\* a filter that looks at the line as it stands in the file
KeepsUntrimmed(line) == line # << >> /\ ~StartsWith(line, << "#" >>)

\* |line| !line.trim().is_empty() && !line.trim().starts_with('#')
KeepsLine(line) == Trim(line) # << >> /\ ~StartsWith(Trim(line), << "#" >>)

\* content.lines().filter(..).collect(): the lines kept, untrimmed, in the
\* order of the file
SourcesOf(lines) ==
  SelectSeq([k \in DOMAIN lines |-> [line |-> k, url |-> lines[k]]],
            LAMBDA src : KeepsLine(src.url))

\* main: with --source, process_single_source(source).await?; with --file,
\* process_sources_file up to its loop: fs::read_to_string(sources_file)?
MainStart ==
  /\ pc = "main"
  /\ UNCHANGED << callVars, temp_dir, backendsRunning, idVars, localVars, limit, episode_temps,
                  main_mode, file_lines, si, source_log >>
  /\ \/ /\ main_mode = "source"
        /\ \E f \in RunFeeds : EnterProcess(f)
        /\ UNCHANGED << main_result, sources >>
     \/ /\ main_mode = "file"
        /\ main_result' = "err"
        /\ pc' = "main_returned"
        /\ UNCHANGED << sources, feed, podcast_dir, info_saved, episodes, ei, episode_dirs,
                        started, downloads, transcribes, log, run_result, run_error,
                        transcript_by >>
     \/ /\ main_mode = "file"
        /\ sources' = SourcesOf(file_lines)
        /\ pc' = "sources_loop"
        /\ UNCHANGED << main_result, feed, podcast_dir, info_saved, episodes, ei,
                        episode_dirs, started, downloads, transcribes, log, run_result,
                        run_error, transcript_by >>

\* for (i, source) in sources.iter().enumerate(): process_single_source(source)
SourceBegin ==
  /\ pc = "sources_loop"
  /\ si < Len(sources)
  /\ \E f \in RunFeeds : EnterProcess(f)
  /\ UNCHANGED << callVars, temp_dir, backendsRunning, idVars, localVars, limit, episode_temps,
                  mainVars >>

\* a loop over the sources that ends at the first source that fails
AbortsOnError(outcome) == outcome.result = "err"

\* if let Err(e) = process_single_source(source, config).await { error!(..) }:
\* no outcome of a source ends the loop
AbortsSources(outcome) == FALSE

\* process returned to process_single_source: with --source its error is
\* main's (`?`); in process_sources_file an Err is logged and the loop goes on
SourceReturned ==
  /\ pc = "process_returned"
  /\ source_log' = Append(source_log, SourceOutcome)
  /\ UNCHANGED << callVars, temp_dir, backendsRunning, idVars, localVars, batchVars, main_mode,
                  file_lines, sources >>
  /\ IF main_mode = "source"
       THEN /\ main_result' = run_result
            /\ pc' = "main_returned"
            /\ UNCHANGED si
       ELSE IF AbortsSources(SourceOutcome)
         THEN /\ main_result' = "err"
              /\ pc' = "main_returned"
              /\ UNCHANGED si
         ELSE /\ si' = si + 1
              /\ pc' = "sources_loop"
              /\ UNCHANGED main_result

\* process_sources_file's loop is over: Ok(())
SourcesDone ==
  /\ pc = "sources_loop"
  /\ si >= Len(sources)
  /\ main_result' = "ok"
  /\ pc' = "main_returned"
  /\ UNCHANGED << callVars, temp_dir, backendsRunning, idVars, localVars, batchVars, main_mode,
                  file_lines, sources, si, source_log >>

\* ---------------------------------------------------------------- local file
\* str::to_lowercase on the letters that occur in the names
LowerOf(c) ==
  CASE c = "M" -> "m"
    [] c = "P" -> "p"
    [] c = "A" -> "a"
    [] OTHER -> c
ToLowercase(s) == [k \in DOMAIN s |-> LowerOf(s[k])]

\* the place of the last '.' of the file name, 0 when it has none
LastDot(name) ==
  IF \E k \in DOMAIN name : name[k] = "."
    THEN CHOOSE k \in DOMAIN name :
           name[k] = "." /\ \A j \in DOMAIN name : j > k => name[j] # "."
    ELSE 0

\* Path::extension: what follows the last '.' of the file name; None for a
\* name without '.' and for a name whose only '.' is its first character
HasExtension(name) == LastDot(name) > 1
\* file_path.extension().and_then(|ext| ext.to_str()).unwrap_or("")
Extension(name) ==
  IF HasExtension(name) THEN SubSeq(name, LastDot(name) + 1, Len(name)) ELSE << >>

\* file_path.file_stem().and_then(|stem| stem.to_str()).unwrap_or("unknown")
FileStem(name) ==
  IF name = << >> THEN << "u", "n", "k", "n", "o", "w", "n" >>
  ELSE IF HasExtension(name) THEN SubSeq(name, 1, LastDot(name) - 1)
  ELSE name

\* a check of the format that accepts every extension
AnyFormat(extension) == TRUE

\* extension.to_lowercase() != "mp3" is the unsupported format
SupportedFormat(extension) == ToLowercase(extension) = << "m", "p", "3" >>

\* LocalFileProcessor::process returns Err
LocalFails ==
  /\ local_result' = "err"
  /\ pc' = "local_returned"

\* the two validations: file_path.exists() and the extension
LocalValidate ==
  /\ pc = "local"
  /\ IF file_path.exists /\ SupportedFormat(Extension(file_path.name))
       THEN /\ pc' = "local_dir"
            /\ UNCHANGED local_result
       ELSE LocalFails
  /\ UNCHANGED << callVars, temp_dir, backendsRunning, idVars, batchVars, mainVars,
                  file_path, file_info, local_steps >>

\* fs::create_dir_all(&output_dir)? on local_files/<sanitized file stem>
LocalCreateDir ==
  /\ pc = "local_dir"
  /\ local_steps' = Append(local_steps, "create_dir_all")
  /\ \/ LocalFails
     \/ /\ pc' = "local_info"
        /\ UNCHANGED local_result
  /\ UNCHANGED << callVars, temp_dir, backendsRunning, idVars, batchVars, mainVars,
                  file_path, file_info >>

\* fs::metadata(&file_path)?.len() and fs::write(file_info.txt, file_info)?,
\* then transcribe_file(&file_path, &transcript_path) is called
LocalWriteInfo ==
  /\ pc = "local_info"
  /\ UNCHANGED << temp_dir, backendsRunning, idVars, batchVars, mainVars, file_path >>
  /\ \/ /\ local_steps' = Append(local_steps, "metadata")
        /\ LocalFails
        /\ UNCHANGED << callVars, file_info >>
     \/ /\ local_steps' = local_steps \o << "metadata", "write" >>
        /\ file_info' \in { file_info, "partial" }
        /\ LocalFails
        /\ UNCHANGED callVars
     \/ /\ local_steps' = local_steps \o << "metadata", "write", "transcribe_file" >>
        /\ file_info' = "whole"
        /\ asset' \in BatchAssets
        /\ pc' = "transcribe_file"
        /\ UNCHANGED << prior, output_file, outputWrites, mode, result, error,
                        failedChunk, segmenterCalls, adapterCalls, tsf, proc,
                        chunk_files, i, all_transcripts, segVars, local_result >>

\* transcribe_file(..).await?: its error is process's, else Ok(())
LocalTranscribed ==
  /\ pc = "done"
  /\ local_result' = result
  /\ pc' = "local_returned"
  /\ UNCHANGED << callVars, temp_dir, backendsRunning, idVars, batchVars, mainVars,
                  file_path, file_info, local_steps >>

\* ---------------------------------------------------------- specifications
Assets ==
  { [exists |-> FALSE, size |-> 0, duration |-> 0] }
    \cup [exists : {TRUE}, size : SizeChoices, duration : OrchDurations]

InitCommon ==
  /\ output_file = prior
  /\ outputWrites = 0
  /\ mode = "none"
  /\ result = "running"
  /\ error = NoError
  /\ failedChunk = -1
  /\ segmenterCalls = 0
  /\ adapterCalls = << >>
  /\ tsf = NoTsf
  /\ proc = NoProc
  /\ chunk_count = 0
  /\ seg_i = 0
  /\ seg_files = << >>
  /\ seg_ret = "none"
  /\ ffmpegCalls = << >>
  /\ chunk_files = << >>
  /\ i = 0
  /\ all_transcripts = << >>
  /\ backendsRunning = 0

NoLimitSet == [set |-> FALSE, n |-> 0]

\* no feed is being processed
InitNoBatch ==
  /\ feed = << >>
  /\ limit = NoLimitSet
  /\ podcast_dir = FALSE
  /\ info_saved = FALSE
  /\ episodes = << >>
  /\ ei = 0
  /\ episode_dirs = {}
  /\ episode_temps = {}
  /\ started = << >>
  /\ downloads = << >>
  /\ transcribes = << >>
  /\ log = << >>
  /\ transcript_by = << >>
  /\ run_result = "running"
  /\ run_error = NoError

\* no command line is being served
InitNoMain ==
  /\ main_mode = "none"
  /\ file_lines = << >>
  /\ sources = << >>
  /\ si = 0
  /\ source_log = << >>
  /\ main_result = "running"

\* no local file is being processed
InitNoLocal ==
  /\ file_path = [exists |-> FALSE, name |-> << >>]
  /\ file_info = "absent"
  /\ local_steps = << >>
  /\ local_result = "running"

InitIdle ==
  /\ raw_name = << >>
  /\ sanitized = << >>
  /\ resanitized = << >>
  /\ InitNoBatch
  /\ InitNoMain
  /\ InitNoLocal

\* One call of transcribe_file(audio_file, output_file).
Init ==
  /\ pc = "transcribe_file"
  /\ asset \in Assets
  /\ prior \in PriorChoices
  /\ temp_dir = NoTemp
  /\ chunk_duration = 0
  /\ InitCommon
  /\ InitIdle

Next ==
  \/ TranscribeFile
  \/ SingleFileCall
  \/ BackendRun
  \/ SingleFileExit
  \/ DirectReturn
  \/ LargeSetup
  \/ SplitProbe
  \/ SplitExtract
  \/ SplitReturn
  \/ LargeAfterSplit
  \/ ChunkNext
  \/ ChunkTranscribed
  \/ WriteCombined

Spec == Init /\ [][Next]_vars

\* One call of split_audio_file(input_file, output_dir, chunk_duration).
InitSeg ==
  /\ pc = "split_probe"
  /\ asset \in [exists : {TRUE}, size : {MAX_SIZE + 1}, duration : 0 .. MaxDurationTicks]
  /\ prior = NoFile
  /\ temp_dir = [exists |-> TRUE, chunks |-> {}, transcripts |-> << >>]
  /\ chunk_duration \in 1 .. MaxChunkSeconds
  /\ InitCommon
  /\ InitIdle

NextSeg ==
  \/ SplitProbe
  \/ SplitExtract
  \/ SplitReturn

SpecSeg == InitSeg /\ [][NextSeg]_vars

\* sanitize_filename on a name, and again on its result.
InitSan ==
  /\ pc = "sanitize"
  /\ raw_name \in RawNames
  /\ sanitized = << >>
  /\ resanitized = << >>
  /\ asset = [exists |-> FALSE, size |-> 0, duration |-> 0]
  /\ prior = NoFile
  /\ temp_dir = NoTemp
  /\ chunk_duration = 0
  /\ InitCommon
  /\ InitNoBatch
  /\ InitNoMain
  /\ InitNoLocal

NextSan ==
  \/ SanitizeOnce
  \/ SanitizeAgain

SpecSan == InitSan /\ [][NextSan]_vars

\* One call of PodcastProcessor::process(feed_url).
MaxItems == 3
Feeds ==
  { f \in UNION { [1 .. n -> 1 .. MaxItems] : n \in 0 .. MaxItems } :
      \A a, b \in DOMAIN f : a # b => f[a] # f[b] }
LimitChoices == { NoLimitSet } \cup [set : {TRUE}, n : 0 .. 2]

InitCall ==
  /\ asset = NoAsset
  /\ prior = NoFile
  /\ temp_dir = NoTemp
  /\ chunk_duration = 0
  /\ InitCommon
  /\ raw_name = << >>
  /\ sanitized = << >>
  /\ resanitized = << >>

InitBatch ==
  /\ pc = "process"
  /\ \E f \in Feeds : feed = [k \in DOMAIN f |-> Item(f[k])]
  /\ limit \in LimitChoices
  /\ podcast_dir = FALSE
  /\ info_saved = FALSE
  /\ episodes = << >>
  /\ ei = 0
  /\ episode_dirs = {}
  /\ episode_temps = {}
  /\ started = << >>
  /\ downloads = << >>
  /\ transcribes = << >>
  /\ log = << >>
  /\ transcript_by = << >>
  /\ run_result = "running"
  /\ run_error = NoError
  /\ InitCall
  /\ InitNoMain
  /\ InitNoLocal

NextCall ==
  \/ TranscribeFile
  \/ SingleFileCall
  \/ BackendRun
  \/ SingleFileExit
  \/ DirectReturn
  \/ LargeSetup
  \/ SplitProbe
  \/ SplitExtract
  \/ SplitReturn
  \/ LargeAfterSplit
  \/ ChunkNext
  \/ ChunkTranscribed
  \/ WriteCombined

NextBatch ==
  \/ ProcessSetup
  \/ EpisodeBegin
  \/ EpisodeDownload
  \/ EpisodeTranscribed
  \/ ProcessReturn
  \/ NextCall

SpecBatch == InitBatch /\ [][NextBatch]_vars

\* One call of PodcastProcessor::process on a feed in which items with an
\* audio enclosure (1 and 4) stand among newer items with a video enclosure
\* (6) or with none (7).
MixedItems == { 1, 4, 6, 7 }
MixedFeeds ==
  { f \in UNION { [1 .. n -> MixedItems] : n \in 0 .. MaxItems } :
      \A a, b \in DOMAIN f : a # b => f[a] # f[b] }

InitFilter ==
  /\ pc = "process"
  /\ \E f \in MixedFeeds : feed = [k \in DOMAIN f |-> Item(f[k])]
  /\ limit \in LimitChoices
  /\ podcast_dir = FALSE
  /\ info_saved = FALSE
  /\ episodes = << >>
  /\ ei = 0
  /\ episode_dirs = {}
  /\ episode_temps = {}
  /\ started = << >>
  /\ downloads = << >>
  /\ transcribes = << >>
  /\ log = << >>
  /\ transcript_by = << >>
  /\ run_result = "running"
  /\ run_error = NoError
  /\ InitCall
  /\ InitNoMain
  /\ InitNoLocal

SpecFilter == InitFilter /\ [][NextBatch]_vars

\* One call of LocalFileProcessor::process(file_path), the path existing or
\* not.
LocalNames ==
  { << "a", ".", "m", "p", "3" >>, << "A", ".", "M", "P", "3" >>,
    << "a", ".", "M", "p", "3" >>, << "a", ".", "m", "p", "4" >>,
    << "a", ".", "m", "p" >>, << "m", "p", "3" >>, << ".", "m", "p", "3" >>,
    << "a", ".", "m", "p", "3", ".", "t" >>, << "a", ".", "t", ".", "m", "p", "3" >>,
    << "#", ".", "m", "p", "3" >>, << "a", "." >>, << >> }

InitLocal ==
  /\ pc = "local"
  /\ file_path \in [exists : BOOLEAN, name : LocalNames]
  /\ file_info = "absent"
  /\ local_steps = << >>
  /\ local_result = "running"
  /\ InitCall
  /\ InitNoBatch
  /\ InitNoMain

NextLocal ==
  \/ LocalValidate
  \/ LocalCreateDir
  \/ LocalWriteInfo
  \/ LocalTranscribed
  \/ NextCall

SpecLocal == InitLocal /\ [][NextLocal]_vars

\* One run of main, on one source or on a file of sources.
MaxSources == 2
\* a URL, a URL behind a space, an empty line, a line of one space, a
\* comment and a comment behind a space
LineChoices ==
  { << "u" >>, << " ", "u" >>, << >>, << " " >>, << "#", "u" >>, << " ", "#" >> }
SourcesFiles == UNION { [1 .. n -> LineChoices] : n \in 0 .. MaxSources }

InitRun ==
  /\ pc = "main"
  /\ main_mode \in { "source", "file" }
  /\ IF main_mode = "source"
       THEN /\ file_lines = << >>
            /\ sources = << [line |-> 0, url |-> << "u" >>] >>
       ELSE /\ file_lines \in SourcesFiles
            /\ sources = << >>
  /\ si = 0
  /\ source_log = << >>
  /\ main_result = "running"
  /\ InitNoBatch
  /\ InitNoLocal
  /\ InitCall

NextRun ==
  \/ MainStart
  \/ SourceBegin
  \/ SourceReturned
  \/ SourcesDone
  \/ NextBatch

SpecRun == InitRun /\ [][NextRun]_vars

\* ================================================================== claims
\* The error of a step that ended the call before the backend was started.
EndedBeforeBackend ==
  result = "err" /\ error.msg \in { "metadata", "create_dir_all", "spawn" }

AllChunksTranscribed ==
  /\ seg_ret = "ok"
  /\ mode = "chunked"
  /\ \A k \in 1 .. Len(seg_files) :
       \E c \in 1 .. Len(adapterCalls) :
         adapterCalls[c].audio = ChunkPath(seg_files[k]) /\ adapterCalls[c].outcome = "ok"
  /\ \A c \in 1 .. Len(adapterCalls) : adapterCalls[c].outcome = "ok"

\* C2: for an asset of more than MAX_SIZE bytes whose chunks all transcribe
\* successfully, the segmenter is called exactly once, the backend exactly
\* once per chunk, and the backend calls are in ascending chunk index order.
C2_ChunkedOncePerChunk ==
  (asset.exists /\ asset.size > MAX_SIZE /\ AllChunksTranscribed) =>
    /\ segmenterCalls = 1
    /\ Len(adapterCalls) = Len(seg_files)
    /\ \A c \in 1 .. Len(adapterCalls) : adapterCalls[c].audio = ChunkPath(c)

C2_Witness ==
  /\ pc = "done"
  /\ result = "ok"
  /\ asset.size > MAX_SIZE
  /\ AllChunksTranscribed
  /\ Len(seg_files) >= 3

\* C3: in chunked mode, once the transcription of a chunk has failed, the
\* file at the output path is what it was before the call: neither created
\* nor modified.
C3_FailedChunkLeavesOutput ==
  (mode = "chunked" /\ failedChunk >= 0) =>
    /\ output_file = prior
    /\ outputWrites = 0

C3_Witness ==
  /\ pc = "done"
  /\ result = "err"
  /\ failedChunk = 1
  /\ Len(chunk_files) >= 3
  /\ error.msg = "Transcription failed"
  /\ prior.exists
  /\ output_file = prior

\* The chunk index an error value carries, -1 when it carries none.
ErrorIndex(e) == IF "index" \in DOMAIN e THEN e.index ELSE -1

\* C4: in chunked mode, when the transcription of chunk k fails, the error
\* returned by transcribe_file carries the index k.
C4_ErrorCarriesIndex ==
  (pc = "done" /\ mode = "chunked" /\ failedChunk >= 0) =>
    /\ result = "err"
    /\ ErrorIndex(error) = failedChunk

\* The complete transcript of the asset, once every backend call succeeded.
CompleteTranscript ==
  IF mode = "direct"
    THEN FileOf(adapterCalls[1].text)
    ELSE FileOf(Combined(all_transcripts))
EveryBackendCallSucceeded ==
  /\ mode \in { "direct", "chunked" }
  /\ \A c \in 1 .. Len(adapterCalls) : adapterCalls[c].outcome = "ok"
  /\ mode = "direct" => Len(adapterCalls) = 1
  /\ mode = "chunked" => (seg_ret = "ok" /\ i = Len(chunk_files) /\ pc = "done")

\* C5: in every state of a call, in either mode, the output path holds its
\* prior content or the complete transcript; it is written at most once,
\* only after every backend call succeeded, and never on a failing path.
C5_TranscriptAtomic ==
  /\ outputWrites <= 1
  /\ outputWrites = 0 => output_file = prior
  /\ outputWrites = 1 => (EveryBackendCallSucceeded /\ output_file = CompleteTranscript)
  /\ result = "err" => (outputWrites = 0 /\ output_file = prior)

RECURSIVE JoinBlank(_)
\* The texts joined with one blank line between consecutive texts.
JoinBlank(texts) ==
  IF texts = << >> THEN << >>
  ELSE IF Len(texts) = 1 THEN texts[1]
  ELSE texts[1] \o << "\n", "\n" >> \o JoinBlank(Tail(texts))

\* The text the backend returned for chunk_{k}.mp3.
ChunkText(k) ==
  adapterCalls[CHOOSE c \in 1 .. Len(adapterCalls) :
                 adapterCalls[c].audio = ChunkPath(k)].text

\* C6: after a successful chunked run the transcript is the chunk texts in
\* ascending chunk index order, one blank line between consecutive texts,
\* the whole trimmed of leading and trailing whitespace.
C6_TranscriptIsJoinedChunks ==
  (pc = "done" /\ mode = "chunked" /\ result = "ok") =>
    output_file = FileOf(Trim(JoinBlank([k \in 1 .. Len(chunk_files) |-> ChunkText(k)])))

C6_Witness ==
  /\ pc = "done"
  /\ mode = "chunked"
  /\ result = "ok"
  /\ Len(chunk_files) >= 3
  /\ ChunkText(1) = << " ", "b" >>
  /\ ChunkText(2) = << "c", "\n" >>
  /\ ChunkText(3) = << >>
  /\ output_file = FileOf(<< "b", "\n", "\n", "c" >>)

\* ceil(d / t) by its definition: the least n with n * t >= d.
CeilOf(d, t) == CHOOSE n \in 0 .. d : n * t >= d /\ (n = 0 \/ (n - 1) * t < d)

\* C8: a successful split_audio_file of a duration d with a chunk length
\* t > 0 returns exactly ceil(d / t) chunks; the chunk at position k of the
\* returned sequence is the k-th one extracted (chunk_{k}.mp3, from offset
\* (k - 1) * t), with no gap and no duplicate.
C8_ChunkCountAndOrder ==
  (pc = "split_returned" /\ seg_ret = "ok") =>
    /\ Len(seg_files) = CeilOf(asset.duration, chunk_duration * TicksPerSecond)
    /\ Len(ffmpegCalls) = Len(seg_files)
    /\ \A k \in 1 .. Len(seg_files) :
         /\ seg_files[k] = k
         /\ ffmpegCalls[k].ss = (k - 1) * chunk_duration
         /\ k \in temp_dir.chunks

C8_Witness ==
  /\ pc = "split_returned"
  /\ seg_ret = "ok"
  /\ chunk_duration = 2
  /\ asset.duration = 9
  /\ seg_files = << 1, 2, 3 >>

\* C9: sanitize_filename is idempotent: applied to its own result it
\* returns that result.
C9_SanitizeIdempotent ==
  pc = "resanitized" => resanitized = sanitized

RECURSIVE CollapseRuns(_)
\* Every maximal run of whitespace turned into one underscore.
CollapseRuns(s) ==
  IF s = << >> THEN << >>
  ELSE IF Head(s) \in RegexSpace
    THEN IF Len(s) > 1 /\ s[2] \in RegexSpace
           THEN CollapseRuns(Tail(s))
           ELSE << "_" >> \o CollapseRuns(Tail(s))
    ELSE << Head(s) >> \o CollapseRuns(Tail(s))

\* C10: sanitize_filename turns each maximal run of whitespace left after
\* the other characters are dropped into exactly one underscore, so its
\* result holds no whitespace character and no two adjacent underscores.
C10_WhitespaceRunsCollapsed ==
  pc = "sanitized" =>
    /\ sanitized = StripTrailing(CollapseRuns(KeepAlphanumeric(WithoutCdata(raw_name))))
    /\ \A k \in 1 .. Len(sanitized) : sanitized[k] \notin RegexSpace
    /\ \A k \in 1 .. (Len(sanitized) - 1) : ~(sanitized[k] = "_" /\ sanitized[k + 1] = "_")

HasAlnum(s) == \E k \in 1 .. Len(s) : s[k] \in AsciiAlnum

\* C11 as stated: for every non-empty name holding at least one ASCII
\* alphanumeric character, sanitize_filename returns a non-empty name.
C11_NonEmptyForAlnum ==
  (pc = "sanitized" /\ raw_name # << >> /\ HasAlnum(raw_name)) => sanitized # << >>

\* C11: for every name that still holds an ASCII alphanumeric character
\* once its CDATA markers are removed, sanitize_filename returns a
\* non-empty name.
C11_NonEmptyForAlnumOutsideCdata ==
  (pc = "sanitized" /\ HasAlnum(WithoutCdata(raw_name))) => sanitized # << >>

C11_Witness ==
  /\ pc = "sanitized"
  /\ raw_name = CDATA_OPEN \o << "a", "#" >> \o CDATA_CLOSE
  /\ sanitized = << "a" >>

Range(q) == { q[k] : k \in DOMAIN q }
Min(a, b) == IF a <= b THEN a ELSE b

\* a was published after b, an item with no date being older than any dated one
Newer(a, b) == a.pub_date.some /\ (~b.pub_date.some \/ a.pub_date.t > b.pub_date.t)

\* the items of the feed that can be transcribed
Candidates == { it \in Range(feed) : it.enclosure = "audio" }

\* the ids of the m newest items of the feed
NewestIds(m) ==
  { it.id : it \in { x \in Candidates :
                       Cardinality({ y \in Candidates : Newer(y, x) }) < m } }

SelectedCount ==
  IF limit.set THEN Min(limit.n, Cardinality(Candidates)) ELSE Cardinality(Candidates)

\* process got past its setup and has returned
BatchEnded == pc = "process_returned" /\ info_saved

\* C12 as stated: once the feed is read, the pipeline processes exactly the
\* min(L, n) newest items, all n when no limit is set, and starts no
\* directory creation, download or transcription for any other item.
C12_LimitSelectsNewest ==
  /\ Range(started) \cup Range(downloads) \cup Range(transcribes)
       \subseteq NewestIds(SelectedCount)
  /\ BatchEnded => Range(started) = NewestIds(SelectedCount)

\* C13 as stated: the episodes are in descending order of publish date with
\* every undated episode behind every dated one, and no undated episode is
\* selected while a dated one is left out.
C13_UndatedSortLast ==
  (pc # "process" /\ info_saved) =>
    /\ \A p, q \in DOMAIN episodes : p < q => ~Newer(episodes[q], episodes[p])
    /\ \A x \in Range(episodes) : \A y \in Candidates \ Range(episodes) :
         ~x.pub_date.some => ~y.pub_date.some

AnEpisodeFailed == \E k \in DOMAIN log : log[k].level = "error"

\* C14 as stated: when the download or the transcription of an episode
\* failed, every other selected episode is still processed and the batch is
\* not aborted.
C14_FailureDoesNotAbort ==
  (BatchEnded /\ AnEpisodeFailed) =>
    /\ run_result = "ok"
    /\ Range(started) = { e.id : e \in Range(episodes) }

\* C15 as stated: whatever error an episode meets, the creation of its
\* directory or of its temporary directory included, the episodes after it
\* are still processed.
C15_ItemErrorAbortsOnlyItem ==
  BatchEnded => Len(started) = Len(episodes)

\* C16 as stated: every episode the run began has exactly one outcome, a
\* success only if it was downloaded and transcribed.
C16_OneOutcomePerItem ==
  BatchEnded =>
    \A k \in DOMAIN started :
      /\ Cardinality({ j \in DOMAIN log : log[j].id = started[k] }) = 1
      /\ \A j \in DOMAIN log :
           (log[j].id = started[k] /\ log[j].level = "info")
             => started[k] \in Range(transcribes)

\* process returned an error met before its loop
SetupFailed(outcome) == outcome.result = "err" /\ ~outcome.setup

\* C17 as stated: an error of a source met before any work on an episode
\* ends the whole run with an error, and no episode is downloaded or
\* transcribed after it.
C17_SetupErrorEndsRun ==
  \A k \in DOMAIN source_log :
    SetupFailed(source_log[k]) =>
      /\ pc # "process" /\ pc # "sources_loop"
      /\ pc = "main_returned" => main_result = "err"
      /\ \A j \in DOMAIN source_log :
           j > k => (source_log[j].downloads = 0 /\ source_log[j].transcribes = 0)

\* C17: an error met by process before its loop (feed, podcast directory,
\* podcast_info.json) makes process return that error with no episode
\* directory created, no download and no transcription started for that
\* source, and the loop over episodes runs only after the setup succeeded;
\* with --source the error is main's result; with --file the error is
\* logged, every later source is still processed and main returns Ok
\* unless the sources file itself could not be read.
C17_SetupErrorEndsSource ==
  /\ (pc = "process_returned" /\ ~info_saved) =>
       /\ run_result = "err"
       /\ started = << >> /\ downloads = << >> /\ transcribes = << >>
       /\ episode_dirs = {}
  /\ pc \in { "episode_loop", "download", "transcribe_file", "done" } => info_saved
  /\ (pc = "main_returned" /\ main_mode = "source") =>
       main_result = source_log[1].result
  /\ (pc = "main_returned" /\ main_mode = "file") =>
       \/ main_result = "err" /\ source_log = << >>
       \/ main_result = "ok" /\ Len(source_log) = Len(sources)

C17_Witness ==
  /\ pc = "main_returned"
  /\ main_mode = "file"
  /\ Len(source_log) = 2
  /\ SetupFailed(source_log[1])
  /\ source_log[2].transcribes = 1
  /\ main_result = "ok"

\* C18: at most one backend process runs at any time: an episode begins only
\* after the episode before it has its outcome, and within a call of
\* transcribe_file a backend call is made only after every earlier one ended.
C18_OneBackendAtATime ==
  /\ backendsRunning <= 1
  /\ \A k \in DOMAIN started :
       k < Len(started) => \E j \in DOMAIN log : log[j].id = started[k]
  /\ \A c \in DOMAIN adapterCalls :
       c < Len(adapterCalls) => adapterCalls[c].outcome # "running"

C18_Witness ==
  /\ pc = "backend_running"
  /\ backendsRunning = 1
  /\ Len(started) = 2
  /\ Len(transcribes) = 2
  /\ Len(adapterCalls) = 2

\* C19: within one call of transcribe_file the backend is invoked at most
\* once on the whole asset in direct mode and at most once on each chunk in
\* chunked mode, no call follows a call that failed, and a failed call makes
\* transcribe_file return an error.
C19_NoRetry ==
  /\ \A a, b \in DOMAIN adapterCalls :
       a # b => adapterCalls[a].audio # adapterCalls[b].audio
  /\ mode = "direct" => Len(adapterCalls) <= 1
  /\ \A c \in DOMAIN adapterCalls :
       c < Len(adapterCalls) => adapterCalls[c].outcome = "ok"
  /\ (pc = "done" /\ \E c \in DOMAIN adapterCalls : adapterCalls[c].outcome = "err")
       => result = "err"

C19_Witness ==
  /\ pc = "done"
  /\ mode = "chunked"
  /\ Len(chunk_files) = 3
  /\ Len(adapterCalls) = 2
  /\ adapterCalls[2].outcome = "err"
  /\ result = "err"

\* C20: when transcribe_file has returned, whatever it returned, its
\* temporary directory with the chunk files and the chunk transcripts is
\* gone; when an episode is finished its temporary directory with the
\* downloaded audio is gone; at most one episode's temporary directory
\* exists at any time.
C20_TempReleased ==
  /\ pc = "done" => temp_dir = NoTemp
  /\ pc \in { "episode_loop", "process_returned" } =>
       (episode_temps = {} /\ temp_dir = NoTemp)
  /\ Cardinality(episode_temps) <= 1

C20_Witness ==
  /\ pc = "done"
  /\ mode = "chunked"
  /\ error = IoError("write")
  /\ Len(started) = 2
  /\ log[1].level = "error"
  /\ episode_temps = { started[2] }

\* an ffmpeg run was requested that pushed no chunk file
ExtractionFailed == Len(ffmpegCalls) > Len(seg_files)

\* C21: when the extraction of a chunk fails, split_audio_file returns an
\* error, requests no further extraction and hands no chunk file to
\* transcribe_large_file, which makes no backend call, leaves the output
\* path as it was and returns an error.
C21_FailedExtractionAbandons ==
  ExtractionFailed =>
    /\ seg_ret = "err"
    /\ pc \in { "split_returned", "done" }
    /\ Len(ffmpegCalls) = Len(seg_files) + 1
    /\ chunk_files = << >>
    /\ adapterCalls = << >>
    /\ outputWrites = 0
    /\ output_file = prior
    /\ pc = "done" => result = "err"

C21_Witness ==
  /\ pc = "done"
  /\ ExtractionFailed
  /\ seg_files = << 1 >>
  /\ chunk_count = 3
  /\ prior.exists
  /\ result = "err"

\* C22: for a duration d > 0 and a chunk length t > 0, chunk i is requested
\* from offset i * t, every chunk but the last with length t and the last
\* with no length; the stretches extracted follow each other from 0 to d
\* with no overlap and no gap, none is empty and none is longer than t.
C22_ChunksTileDuration ==
  (pc = "split_returned" /\ seg_ret = "ok" /\ asset.duration > 0) =>
    LET n == Len(ffmpegCalls)
        from(k) == ExtractedFrom(ffmpegCalls[k])
        to(k) == ExtractedTo(ffmpegCalls[k], asset.duration)
    IN /\ n >= 1
       /\ \A k \in 1 .. n :
            /\ ffmpegCalls[k].ss = (k - 1) * chunk_duration
            /\ ffmpegCalls[k].t = (IF k < n THEN chunk_duration ELSE NoLimit)
            /\ from(k) < to(k)
            /\ to(k) - from(k) <= chunk_duration * TicksPerSecond
       /\ from(1) = 0
       /\ \A k \in 1 .. (n - 1) : to(k) = from(k + 1)
       /\ to(n) = asset.duration

C22_Witness ==
  /\ pc = "split_returned"
  /\ seg_ret = "ok"
  /\ chunk_duration = 3
  /\ asset.duration = 13
  /\ Len(ffmpegCalls) = 3
  /\ ffmpegCalls[3] = [ss |-> 6, t |-> NoLimit]

\* the length in ticks of the chunk file of the given number
ChunkTicksOf(n) ==
  ExtractedTo(ffmpegCalls[n], asset.duration) - ExtractedFrom(ffmpegCalls[n])

C24_EpisodeDirIsChild ==
  \A name \in episode_dirs : name # << >>

\* the episode of the given id, among those selected
EpisodeOf(id) == CHOOSE e \in Range(episodes) : e.id = id

\* C25 as stated: an episode is given to transcribe_file only after its
\* audio was downloaded, its directory created and a metadata file written
\* in that directory.
C25_StepsBeforeTranscription ==
  \A id \in Range(transcribes) :
    /\ id \in Range(downloads)
    /\ EpisodeDirName(EpisodeOf(id)) \in episode_dirs
    /\ "metadata" \in EpisodeFiles(EpisodeDirName(EpisodeOf(id)))

\* the ids of the episodes with the given directory name whose transcription
\* returned Ok, in the order of processing
SucceededIn(name) ==
  SelectSeq([k \in DOMAIN log |-> log[k]],
            LAMBDA l : l.level = "info" /\ EpisodeDirName(EpisodeOf(l.id)) = name)

\* C26 as stated: after the batch, the transcript in a directory that
\* episodes share is the whole transcript of the last of them whose
\* transcription succeeded.
C26_LastSuccessWins ==
  BatchEnded =>
    \A name \in episode_dirs :
      SucceededIn(name) # << >> =>
        /\ name \in DOMAIN transcript_by
        /\ transcript_by[name] =
             [by |-> SucceededIn(name)[Len(SucceededIn(name))].id, whole |-> TRUE]

\* every selected episode has its outcome
AllOutcomes == \A e \in Range(episodes) : \E k \in DOMAIN log : log[k].id = e.id

Skipped == { it.id : it \in Range(feed) \ Candidates }

\* C30 as stated: an item without an audio enclosure is never selected,
\* downloaded or transcribed and takes none of the L places, and the run
\* downloads the L newest of the items that have an audio enclosure.
C30_LimitAfterFilter ==
  /\ Skipped \cap (Range(started) \cup Range(downloads) \cup Range(transcribes)) = {}
  /\ (pc # "process" /\ info_saved) => Len(episodes) = SelectedCount
  /\ BatchEnded => Range(downloads) = NewestIds(SelectedCount)

\* the line has no character other than white space
BlankLine(line) == \A k \in DOMAIN line : IsWhitespace(line[k])

\* the first character of the line that is not white space is '#'
CommentLine(line) ==
  \E k \in DOMAIN line :
    /\ line[k] = "#"
    /\ \A j \in 1 .. k - 1 : IsWhitespace(line[j])

\* the numbers of the lines that name a source, in the order of the file
RECURSIVE SourceLineNumbers(_, _)
SourceLineNumbers(lines, k) ==
  IF k > Len(lines) THEN << >>
  ELSE IF BlankLine(lines[k]) \/ CommentLine(lines[k])
    THEN SourceLineNumbers(lines, k + 1)
    ELSE << k >> \o SourceLineNumbers(lines, k + 1)

\* C29: with --file, once the file is read, the sources processed so far are
\* the first lines of the file that are neither blank nor a comment, each
\* once and in the order of the file, whatever the earlier ones returned;
\* when main returns they are all of them and main's result is Ok. An
\* error is main's result only when the file could not be read, and then
\* no source was processed.
C29_EverySourceOnceInOrder ==
  (main_mode = "file" /\ pc # "main") =>
    IF main_result = "err"
      THEN source_log = << >> /\ pc = "main_returned"
      ELSE /\ Len(source_log) <= Len(SourceLineNumbers(file_lines, 1))
           /\ \A k \in DOMAIN source_log :
                source_log[k].line = SourceLineNumbers(file_lines, 1)[k]
           /\ pc = "main_returned" =>
                /\ main_result = "ok"
                /\ Len(source_log) = Len(SourceLineNumbers(file_lines, 1))

C29_Witness ==
  /\ pc = "main_returned"
  /\ main_mode = "file"
  /\ file_lines = << << " ", "#" >>, << " ", "u" >> >>
  /\ Len(source_log) = 1
  /\ source_log[1].line = 2
  /\ source_log[1].result = "err"
  /\ main_result = "ok"

\* the name ends in '.' and the letters m, p, 3 in either case, behind at
\* least one other character
Mp3Name(name) ==
  /\ Len(name) > 4
  /\ name[Len(name) - 3] = "."
  /\ name[Len(name) - 2] \in { "m", "M" }
  /\ name[Len(name) - 1] \in { "p", "P" }
  /\ name[Len(name)] = "3"

ValidLocalFile == file_path.exists /\ Mp3Name(file_path.name)

\* C27: for a path that does not exist or whose extension is not "mp3" in
\* some case, process returns an error having created no directory, written
\* no file_info.txt and no transcript and called no backend; in every call
\* transcribe_file is invoked only after create_dir_all and after
\* file_info.txt was written whole.
C27_ValidatesBeforeWrites ==
  /\ (pc # "local" /\ ~ValidLocalFile) =>
       /\ pc = "local_returned" /\ local_result = "err"
       /\ local_steps = << >>
       /\ file_info = "absent"
       /\ output_file = prior /\ outputWrites = 0
       /\ mode = "none" /\ adapterCalls = << >> /\ segmenterCalls = 0
       /\ backendsRunning = 0
  /\ (pc # "local" /\ ValidLocalFile) => pc # "local_returned" \/ local_steps # << >>
  /\ (mode # "none" \/ pc \in { "transcribe_file", "done" }) =>
       /\ file_info = "whole"
       /\ local_steps = << "create_dir_all", "metadata", "write", "transcribe_file" >>

C27_Witness ==
  /\ pc = "local_returned"
  /\ file_path = [exists |-> TRUE, name |-> << "a", ".", "m", "p", "4" >>]
  /\ local_result = "err"
  /\ local_steps = << >>

\* the asset is above the threshold and ffprobe reports a duration of 0
LargeOfNoDuration == asset.exists /\ asset.size > MAX_SIZE /\ asset.duration = 0

\* C31 as stated: for an asset above the threshold whose probed duration is
\* 0, split_audio_file returns no chunk and runs no extraction, and
\* transcribe_file makes no backend call, writes an empty transcript and
\* returns Ok.
C31_EmptyTranscriptOnSuccess ==
  (LargeOfNoDuration /\ seg_ret = "ok") =>
    /\ seg_files = << >> /\ ffmpegCalls = << >>
    /\ adapterCalls = << >>
    /\ pc = "done" => (result = "ok" /\ output_file = FileOf(<< >>))

\* C31: for an asset above the threshold whose probed duration is 0,
\* split_audio_file runs no extraction and returns no chunk, and
\* transcribe_file makes no backend call; it then writes an empty transcript
\* with one write and returns Ok, unless creating the parent directory of
\* the output path or opening the output path fails: then it returns that
\* error and the output path is as it was before the call.
C31_EmptyTranscriptUnlessWriteFails ==
  LargeOfNoDuration =>
    /\ ffmpegCalls = << >> /\ seg_files = << >> /\ chunk_count = 0
    /\ adapterCalls = << >> /\ backendsRunning = 0 /\ tsf = NoTsf
    /\ seg_ret = "ok" =>
         /\ segmenterCalls = 1
         /\ pc \in { "split_returned", "chunk_loop", "done" }
         /\ pc = "done" =>
              \/ /\ result = "ok"
                 /\ output_file = FileOf(<< >>)
                 /\ outputWrites = 1
              \/ /\ result = "err"
                 /\ error \in { IoError("create_dir_all"), IoError("write") }
                 /\ output_file = prior
                 /\ outputWrites = 0

C31_Witness ==
  /\ LargeOfNoDuration
  /\ seg_ret = "ok"
  /\ pc = "done"
  /\ result = "ok"
  /\ prior = FileOf(<< "o", "l", "d" >>)
  /\ output_file = FileOf(<< >>)

====
